---- MODULE Spec2Model ----
(***************************************************************************)
(* Model of src/app.py: the ten text feature extractors and analyze_text   *)
(* (feature aggregation, score combination, sensitivity adjustment).       *)
(*                                                                         *)
(* Real numbers are exact rationals [n |-> numerator, d |-> denominator].  *)
(* A rational with d = 0 is the outcome of a division by zero, that is,    *)
(* the ZeroDivisionError Python raises there.  Sensitivities are counted   *)
(* in hundredths (0.75 is 75).  Characters are Unicode code points and a   *)
(* text is a sequence of code points.                                      *)
(***************************************************************************)
EXTENDS Integers, Sequences, FiniteSets

VARIABLES pc, text, sensitivity,
          repeated, formal, grammar, formulaic, structure,
          contractions, errors, emotion, casual, opinion,
          ai_features, human_features, ai_scores, human_scores,
          ai_score, human_score

sigvars == <<repeated, formal, grammar, formulaic, structure,
             contractions, errors, emotion, casual, opinion>>
aggvars == <<ai_features, human_features, ai_scores, human_scores>>
vars == <<pc, text, sensitivity, sigvars, aggvars, ai_score, human_score>>

----------------------------------------------------------------------------
(* Exact rational arithmetic standing for Python's float arithmetic.       *)

Abs(x) == IF x < 0 THEN -x ELSE x

RECURSIVE GCD(_, _)
GCD(a, b) == IF b = 0 THEN a ELSE GCD(b, a % b)

R(n, d) ==
    IF d = 0 THEN [n |-> 0, d |-> 0]
    ELSE LET g == GCD(Abs(n), Abs(d))
             s == IF d < 0 THEN -1 ELSE 1
         IN  [n |-> s * (n \div g), d |-> s * (d \div g)]

RInt(k) == [n |-> k, d |-> 1]

Raised(x) == x.d = 0

RAdd(x, y) == IF Raised(x) \/ Raised(y) THEN R(0, 0)
              ELSE R(x.n * y.d + y.n * x.d, x.d * y.d)
RSub(x, y) == IF Raised(x) \/ Raised(y) THEN R(0, 0)
              ELSE R(x.n * y.d - y.n * x.d, x.d * y.d)
RMul(x, y) == IF Raised(x) \/ Raised(y) THEN R(0, 0)
              ELSE R(x.n * y.n, x.d * y.d)
RDiv(x, y) == IF Raised(x) \/ Raised(y) THEN R(0, 0)
              ELSE R(x.n * y.d, x.d * y.n)

RLt(x, y) == x.n * y.d < y.n * x.d
RLe(x, y) == x.n * y.d <= y.n * x.d
RGt(x, y) == RLt(y, x)
REq(x, y) == x.n * y.d = y.n * x.d

(* Python's min(a, b) and max(a, b): the first argument unless the second  *)
(* is strictly smaller (larger).                                           *)
RMin(x, y) == IF RLt(y, x) THEN y ELSE x
RMax(x, y) == IF RGt(y, x) THEN y ELSE x

RECURSIVE SumScores(_)
SumScores(s) == IF s = <<>> THEN RInt(0) ELSE RAdd(s[1], SumScores(Tail(s)))

----------------------------------------------------------------------------
(* Python string operations, on sequences of code points.                  *)

(* str.isspace for one character: the code points Python treats as         *)
(* whitespace.                                                             *)
IsSpace(c) ==
    c \in {9, 10, 11, 12, 13, 28, 29, 30, 31, 32, 133, 160, 5760, 8232, 8233,
           8239, 8287, 12288} \cup 8192..8202

(* str.isupper for one character; the cased characters of the texts        *)
(* considered are the ASCII letters.                                       *)
IsUpper(c) == c \in 65..90

(* str.lower, on the same characters.                                      *)
Lower(t) == [i \in 1..Len(t) |-> IF t[i] \in 65..90 THEN t[i] + 32 ELSE t[i]]

(* "w in t" at position i.                                                 *)
MatchAt(t, w, i) ==
    /\ i + Len(w) - 1 <= Len(t)
    /\ \A j \in 1..Len(w) : t[i + j - 1] = w[j]

(* "w in t".                                                               *)
Contains(t, w) == \E i \in 1..(Len(t) - Len(w) + 1) : MatchAt(t, w, i)

(* The positions from i on at which w occurs in t.                         *)
MatchesFrom(t, w, i) == {k \in i..(Len(t) - Len(w) + 1) : MatchAt(t, w, k)}

Least(S) == CHOOSE k \in S : \A m \in S : k <= m

(* t.count(w): the non-overlapping occurrences of w, scanned from the      *)
(* left, starting at position i; after a match the scan resumes behind it. *)
RECURSIVE CountFrom(_, _, _)
CountFrom(t, w, i) ==
    LET ms == MatchesFrom(t, w, i)
    IN  IF ms = {} THEN 0 ELSE 1 + CountFrom(t, w, Least(ms) + Len(w))

Count(t, w) == CountFrom(t, w, 1)

(* The elements of a set of positions in increasing order.                 *)
Ordered(S) ==
    [k \in 1..Cardinality(S) |->
        CHOOSE i \in S : Cardinality({j \in S : j <= i}) = k]

(* t.split(): the maximal runs of non-whitespace characters.               *)
Split(t) ==
    LET starts == Ordered({i \in 1..Len(t) :
                      ~IsSpace(t[i]) /\ (i = 1 \/ IsSpace(t[i - 1]))})
        ends == Ordered({i \in 1..Len(t) :
                      ~IsSpace(t[i]) /\ (i = Len(t) \/ IsSpace(t[i + 1]))})
    IN  [k \in 1..Len(starts) |-> SubSeq(t, starts[k], ends[k])]

(* t.split(sep) for a one-character separator: the pieces between the      *)
(* separators, empty pieces kept.                                          *)
SplitOn(t, sep) ==
    LET cuts == Ordered({i \in 1..Len(t) : t[i] = sep})
        from(k) == IF k = 1 THEN 1 ELSE cuts[k - 1] + 1
        to(k) == IF k = Len(cuts) + 1 THEN Len(t) ELSE cuts[k] - 1
    IN  [k \in 1..(Len(cuts) + 1) |-> SubSeq(t, from(k), to(k))]

(* s.strip().                                                              *)
Strip(s) ==
    LET solid == {i \in 1..Len(s) : ~IsSpace(s[i])}
    IN  IF solid = {} THEN <<>>
        ELSE SubSeq(s, Least(solid), CHOOSE k \in solid : \A m \in solid : m <= k)

(* ' '.join(ws).                                                           *)
RECURSIVE Join(_)
Join(ws) ==
    IF ws = <<>> THEN <<>>
    ELSE IF Len(ws) = 1 THEN ws[1]
    ELSE ws[1] \o <<32>> \o Join(Tail(ws))

(* sum(1 for w in list if w in t).                                         *)
Present(list, t) == Cardinality({i \in 1..Len(list) : Contains(t, list[i])})

(* sum(t.count(w) for w in list).                                          *)
RECURSIVE Occurrences(_, _)
Occurrences(list, t) ==
    IF list = <<>> THEN 0 ELSE Count(t, list[1]) + Occurrences(Tail(list), t)

RECURSIVE SumInts(_)
SumInts(s) == IF s = <<>> THEN 0 ELSE s[1] + SumInts(Tail(s))

(* The sentence terminator of lines 43 and 70.                             *)
Terminator == 12290

----------------------------------------------------------------------------
(* The vocabularies.                                                       *)

(* Line 25-29: 'furthermore', 'moreover', 'consequently', 'therefore', *)
(* 'nevertheless', 'however', 'regarding', 'facilitate', 'implement', *)
(* 'subsequent', 'adjacent', 因此, 然而, 儘管 *)
formal_words ==
    <<
      <<102, 117, 114, 116, 104, 101, 114, 109, 111, 114, 101>>,
      <<109, 111, 114, 101, 111, 118, 101, 114>>,
      <<99, 111, 110, 115, 101, 113, 117, 101, 110, 116, 108, 121>>,
      <<116, 104, 101, 114, 101, 102, 111, 114, 101>>,
      <<110, 101, 118, 101, 114, 116, 104, 101, 108, 101, 115, 115>>,
      <<104, 111, 119, 101, 118, 101, 114>>,
      <<114, 101, 103, 97, 114, 100, 105, 110, 103>>,
      <<102, 97, 99, 105, 108, 105, 116, 97, 116, 101>>,
      <<105, 109, 112, 108, 101, 109, 101, 110, 116>>,
      <<115, 117, 98, 115, 101, 113, 117, 101, 110, 116>>,
      <<97, 100, 106, 97, 99, 101, 110, 116>>,
      <<22240, 27492>>,
      <<28982, 32780>>,
      <<20760, 31649>>
    >>

(* Line 52-61: "in today's world", 'it is important to', 'in conclusion', *)
(* 'furthermore', 在當今世界, 重要的是, 總之, 此外 *)
patterns ==
    <<
      <<105, 110, 32, 116, 111, 100, 97, 121, 39, 115, 32, 119, 111, 114, 108,
        100>>,
      <<105, 116, 32, 105, 115, 32, 105, 109, 112, 111, 114, 116, 97, 110, 116,
        32, 116, 111>>,
      <<105, 110, 32, 99, 111, 110, 99, 108, 117, 115, 105, 111, 110>>,
      <<102, 117, 114, 116, 104, 101, 114, 109, 111, 114, 101>>,
      <<22312, 30070, 20170, 19990, 30028>>,
      <<37325, 35201, 30340, 26159>>,
      <<32317, 20043>>,
      <<27492, 22806>>
    >>

(* Line 84-88: "can't", "don't", "won't", "isn't", "hasn't", "haven't", *)
(* "shouldn't", "couldn't", "wouldn't", "that's", "it's", "i'm", *)
(* "you're", "i've" *)
contraction_list ==
    <<
      <<99, 97, 110, 39, 116>>,
      <<100, 111, 110, 39, 116>>,
      <<119, 111, 110, 39, 116>>,
      <<105, 115, 110, 39, 116>>,
      <<104, 97, 115, 110, 39, 116>>,
      <<104, 97, 118, 101, 110, 39, 116>>,
      <<115, 104, 111, 117, 108, 100, 110, 39, 116>>,
      <<99, 111, 117, 108, 100, 110, 39, 116>>,
      <<119, 111, 117, 108, 100, 110, 39, 116>>,
      <<116, 104, 97, 116, 39, 115>>,
      <<105, 116, 39, 115>>,
      <<105, 39, 109>>,
      <<121, 111, 117, 39, 114, 101>>,
      <<105, 39, 118, 101>>
    >>

(* Line 98: 'the the', 'and and', 'a a', 的的, 和和 *)
double_words ==
    <<
      <<116, 104, 101, 32, 116, 104, 101>>,
      <<97, 110, 100, 32, 97, 110, 100>>,
      <<97, 32, 97>>,
      <<30340, 30340>>,
      <<21644, 21644>>
    >>

(* Line 107-111: 'love', 'hate', 'beautiful', 'terrible', 'wonderful', *)
(* 'awful', 'amazing', 'fantastic', 'horrible', 'feel', 喜歡, 討厭, 美, 可怕, 棒, *)
(* 糟糕, 感受 *)
emotional ==
    <<
      <<108, 111, 118, 101>>,
      <<104, 97, 116, 101>>,
      <<98, 101, 97, 117, 116, 105, 102, 117, 108>>,
      <<116, 101, 114, 114, 105, 98, 108, 101>>,
      <<119, 111, 110, 100, 101, 114, 102, 117, 108>>,
      <<97, 119, 102, 117, 108>>,
      <<97, 109, 97, 122, 105, 110, 103>>,
      <<102, 97, 110, 116, 97, 115, 116, 105, 99>>,
      <<104, 111, 114, 114, 105, 98, 108, 101>>,
      <<102, 101, 101, 108>>,
      <<21916, 27489>>,
      <<35342, 21421>>,
      <<32654>>,
      <<21487, 24597>>,
      <<26834>>,
      <<31967, 31957>>,
      <<24863, 21463>>
    >>

(* Line 120-124: 'like', 'you know', 'basically', 'literally', *)
(* 'actually', 'honestly', 'pretty', 'kind of', 'sort of', 'gonna', *)
(* 'wanna', 就像, 你知道, 基本上 *)
casual_words ==
    <<
      <<108, 105, 107, 101>>,
      <<121, 111, 117, 32, 107, 110, 111, 119>>,
      <<98, 97, 115, 105, 99, 97, 108, 108, 121>>,
      <<108, 105, 116, 101, 114, 97, 108, 108, 121>>,
      <<97, 99, 116, 117, 97, 108, 108, 121>>,
      <<104, 111, 110, 101, 115, 116, 108, 121>>,
      <<112, 114, 101, 116, 116, 121>>,
      <<107, 105, 110, 100, 32, 111, 102>>,
      <<115, 111, 114, 116, 32, 111, 102>>,
      <<103, 111, 110, 110, 97>>,
      <<119, 97, 110, 110, 97>>,
      <<23601, 20687>>,
      <<20320, 30693, 36947>>,
      <<22522, 26412, 19978>>
    >>

(* Line 133-137: 'i think', 'i believe', 'my opinion', 'i would say', *)
(* 'personally', 'to me', 'in my view', 我認為, 我相信, 我的看法, 個人來說 *)
opinions ==
    <<
      <<105, 32, 116, 104, 105, 110, 107>>,
      <<105, 32, 98, 101, 108, 105, 101, 118, 101>>,
      <<109, 121, 32, 111, 112, 105, 110, 105, 111, 110>>,
      <<105, 32, 119, 111, 117, 108, 100, 32, 115, 97, 121>>,
      <<112, 101, 114, 115, 111, 110, 97, 108, 108, 121>>,
      <<116, 111, 32, 109, 101>>,
      <<105, 110, 32, 109, 121, 32, 118, 105, 101, 119>>,
      <<25105, 35469, 28858>>,
      <<25105, 30456, 20449>>,
      <<25105, 30340, 30475, 27861>>,
      <<20491, 20154, 20358, 35498>>
    >>

----------------------------------------------------------------------------
(* The ten extractors, lines 9-141.                                        *)

(* Lines 15-18: the dictionary of three-word phrases with their counts,    *)
(* after the loop has handled the windows from i on.                       *)
RECURSIVE PhraseCounts(_, _, _)
PhraseCounts(words, i, phrases) ==
    IF i > Len(words) - 2 THEN phrases
    ELSE LET phrase == Join(SubSeq(words, i, i + 2))
             old == IF phrase \in DOMAIN phrases THEN phrases[phrase] ELSE 0
         IN  PhraseCounts(words, i + 1,
                 [p \in DOMAIN phrases \cup {phrase} |->
                     IF p = phrase THEN old + 1 ELSE phrases[p]])

EmptyDict == [p \in {} |-> 0]

(* Variant: phrases counted from their second occurrence on.               *)
count_repeated_phrases_Twice(t) ==
    LET words == Split(Lower(t))
    IN  IF Len(words) < 3 THEN 0
        ELSE LET phrases == PhraseCounts(words, 1, EmptyDict)
             IN  Cardinality({p \in DOMAIN phrases : phrases[p] > 1})

count_repeated_phrases(t) ==
    LET words == Split(Lower(t))
    IN  IF Len(words) < 3 THEN 0
        ELSE LET phrases == PhraseCounts(words, 1, EmptyDict)
             IN  Cardinality({p \in DOMAIN phrases : phrases[p] > 2})

detect_formal_language(t) ==
    LET count == Present(formal_words, Lower(t))
    IN  RMin(RInt(1), R(count, 3))

(* Variant: the denominator without its floor of 1.                        *)
WordShare_Unguarded(t, k) == R(Len(Split(t)), k)

(* The denominator max(1, len(text.split()) / k) of lines 47, 102, 115,    *)
(* 128 and 141.                                                            *)
WordShare(t, k) == RMax(RInt(1), R(Len(Split(t)), k))

check_grammar_perfection(t) ==
    LET double_space == <<32, 32>>
        spacing == IF Contains(t, double_space) THEN Count(t, double_space) ELSE 0
        sentences == SplitOn(t, Terminator)
        cap_errors == Cardinality({i \in 1..Len(sentences) :
                          /\ Strip(sentences[i]) # <<>>
                          /\ ~IsUpper(Strip(sentences[i])[1])})
        errs == spacing + cap_errors
    IN  RMax(RInt(0), RSub(RInt(1), RDiv(RInt(errs), WordShare(t, 10))))

(* Variant: three patterns required.                                       *)
check_formulaic_patterns_Three(t) ==
    LET count == Present(patterns, Lower(t))
    IN  count >= 3

check_formulaic_patterns(t) ==
    LET count == Present(patterns, Lower(t))
    IN  count >= 2

(* Line 70: the stripped, non-empty sentences, in order.                   *)
RECURSIVE Stripped(_)
Stripped(ss) ==
    IF ss = <<>> THEN <<>>
    ELSE (IF Strip(ss[1]) # <<>> THEN <<Strip(ss[1])>> ELSE <<>>)
         \o Stripped(Tail(ss))

(* numpy.mean and numpy.var of a non-empty list of integers.               *)
Mean(l) == R(SumInts(l), Len(l))
Var(l) ==
    LET squares == [i \in 1..Len(l) |-> l[i] * l[i]]
    IN  RSub(R(SumInts(squares), Len(l)), RMul(Mean(l), Mean(l)))

analyze_structure(t) ==
    LET sentences == Stripped(SplitOn(t, Terminator))
    IN  IF Len(sentences) < 2 THEN RInt(0)
        ELSE LET lengths == [i \in 1..Len(sentences) |-> Len(Split(sentences[i]))]
                 variance == IF Len(lengths) > 1 THEN Var(lengths) ELSE RInt(0)
                 mean_len == IF lengths # <<>> THEN Mean(lengths) ELSE RInt(1)
                 cv == RDiv(variance, RAdd(mean_len, RInt(1)))
             IN  RSub(RInt(1), RMin(RInt(1), RDiv(cv, RInt(3))))

count_contractions(t) == Occurrences(contraction_list, Lower(t))

detect_natural_errors(t) ==
    LET errs == Occurrences(double_words, Lower(t))
    IN  RDiv(RInt(errs), WordShare(t, 10))

detect_emotional_language(t) ==
    LET count == Present(emotional, Lower(t))
    IN  RDiv(RInt(count), WordShare(t, 5))

detect_casual_language(t) ==
    LET count == Present(casual_words, Lower(t))
    IN  RDiv(RInt(count), WordShare(t, 5))

detect_personal_opinions(t) ==
    LET count == Present(opinions, Lower(t))
    IN  RDiv(RInt(count), WordShare(t, 5))

----------------------------------------------------------------------------
(* analyze_text, lines 147-229.  The keys of ai_features are, in order,    *)
(* the entries the code names 重複短語多, 過度正式, 語法完美, 模式化短語,  *)
(* 結構過規律; those of human_features are 使用縮寫, 自然錯誤, 情感表現,   *)
(* 口語用詞, 個人觀點.                                                     *)

AIKeys == <<"repeated", "formal", "grammar", "formulaic", "structure">>
HumanKeys == <<"contraction", "error", "emotional", "casual", "opinion">>

KeySet(keys) == {keys[i] : i \in 1..Len(keys)}

Signals == [repeated |-> repeated, formal |-> formal, grammar |-> grammar,
            formulaic |-> formulaic, structure |-> structure,
            contractions |-> contractions, errors |-> errors,
            emotion |-> emotion, casual |-> casual, opinion |-> opinion]

(* Variant of the AI thresholds: the repeated-phrase comparison inclusive. *)
AiFeatures_Inclusive(sig) ==
    [k \in KeySet(AIKeys) |->
        CASE k = "repeated"  -> sig.repeated >= 3
          [] k = "formal"    -> RGt(sig.formal, R(6, 10))
          [] k = "grammar"   -> RGt(sig.grammar, R(8, 10))
          [] k = "formulaic" -> sig.formulaic
          [] k = "structure" -> RGt(sig.structure, R(7, 10))]

(* The ai_features dictionary built at lines 153, 159, 165, 171, 177.      *)
AiFeatures(sig) ==
    [k \in KeySet(AIKeys) |->
        CASE k = "repeated"  -> sig.repeated > 3
          [] k = "formal"    -> RGt(sig.formal, R(6, 10))
          [] k = "grammar"   -> RGt(sig.grammar, R(8, 10))
          [] k = "formulaic" -> sig.formulaic
          [] k = "structure" -> RGt(sig.structure, R(7, 10))]

(* Variant of the Human thresholds: one contraction is enough.             *)
HumanFeatures_AtLeastOne(sig) ==
    [k \in KeySet(HumanKeys) |->
        CASE k = "contraction" -> sig.contractions >= 1
          [] k = "error"       -> RGt(sig.errors, R(1, 100))
          [] k = "emotional"   -> RGt(sig.emotion, R(5, 100))
          [] k = "casual"      -> RGt(sig.casual, R(5, 100))
          [] k = "opinion"     -> RGt(sig.opinion, R(5, 100))]

(* The human_features dictionary built at lines 187, 193, 199, 205, 211.   *)
HumanFeatures(sig) ==
    [k \in KeySet(HumanKeys) |->
        CASE k = "contraction" -> sig.contractions > 1
          [] k = "error"       -> RGt(sig.errors, R(1, 100))
          [] k = "emotional"   -> RGt(sig.emotion, R(5, 100))
          [] k = "casual"      -> RGt(sig.casual, R(5, 100))
          [] k = "opinion"     -> RGt(sig.opinion, R(5, 100))]

(* The value appended to ai_scores under each feature's condition.         *)
AiWeight ==
    [repeated |-> R(15, 100), formal |-> R(12, 100), grammar |-> R(12, 100),
     formulaic |-> R(10, 100), structure |-> R(10, 100)]

(* The value appended to human_scores under each feature's condition.      *)
HumanWeight ==
    [contraction |-> R(15, 100), error |-> R(12, 100), emotional |-> R(15, 100),
     casual |-> R(12, 100), opinion |-> R(10, 100)]

(* The list a run of "if <condition>: scores.append(w)" statements leaves: *)
(* the weights of the features whose condition holds, in source order.     *)
RECURSIVE Appended(_, _, _, _)
Appended(keys, flags, weight, i) ==
    IF i > Len(keys) THEN <<>>
    ELSE (IF flags[keys[i]] THEN <<weight[keys[i]]>> ELSE <<>>)
         \o Appended(keys, flags, weight, i + 1)

AiScores(flags) == Appended(AIKeys, flags, AiWeight, 1)
HumanScores(flags) == Appended(HumanKeys, flags, HumanWeight, 1)

(* Line 216.                                                               *)
AiBase(scores) == RMin(R(95, 100), RAdd(SumScores(scores), R(15, 100)))

(* Variant of the Human base: the baseline 0.1 left out.                   *)
HumanBase_NoBaseline(scores) == RMin(R(95, 100), SumScores(scores))

(* Line 217.                                                               *)
HumanBase(scores) == RMin(R(95, 100), RAdd(SumScores(scores), R(10, 100)))

(* Variant of the normalisation: the Human base in the numerator.          *)
Normalize_Swapped(ai_base, human_base) ==
    LET total == RAdd(ai_base, human_base)
    IN  IF RGt(total, RInt(0)) THEN RDiv(human_base, total) ELSE R(1, 2)

(* Lines 219-220.                                                          *)
Normalize(ai_base, human_base) ==
    LET total == RAdd(ai_base, human_base)
    IN  IF RGt(total, RInt(0)) THEN RDiv(ai_base, total) ELSE R(1, 2)

(* Variants of the adjustment: without the cap at 0.99, with the two       *)
(* multipliers exchanged, and with an inclusive lower comparison.          *)
ApplySensitivity_NoCap(ai, human, s) ==
    IF s < 75
    THEN LET a == RMul(ai, R(85, 100)) IN <<a, RSub(RInt(1), a)>>
    ELSE IF s > 85
    THEN LET a == RMul(ai, R(115, 100)) IN <<a, RSub(RInt(1), a)>>
    ELSE <<ai, human>>

ApplySensitivity_Swapped(ai, human, s) ==
    IF s < 75
    THEN LET a == RMin(R(99, 100), RMul(ai, R(115, 100))) IN <<a, RSub(RInt(1), a)>>
    ELSE IF s > 85
    THEN LET a == RMul(ai, R(85, 100)) IN <<a, RSub(RInt(1), a)>>
    ELSE <<ai, human>>

ApplySensitivity_Inclusive(ai, human, s) ==
    IF s <= 75
    THEN LET a == RMul(ai, R(85, 100)) IN <<a, RSub(RInt(1), a)>>
    ELSE IF s > 85
    THEN LET a == RMin(R(99, 100), RMul(ai, R(115, 100))) IN <<a, RSub(RInt(1), a)>>
    ELSE <<ai, human>>

(* Lines 224-229: the pair (ai_score, human_score) after the sensitivity   *)
(* adjustment.                                                             *)
ApplySensitivity(ai, human, s) ==
    IF s < 75
    THEN LET a == RMul(ai, R(85, 100)) IN <<a, RSub(RInt(1), a)>>
    ELSE IF s > 85
    THEN LET a == RMin(R(99, 100), RMul(ai, R(115, 100))) IN <<a, RSub(RInt(1), a)>>
    ELSE <<ai, human>>

(* Lines 216-229: the AI score analyze_text returns for given feature      *)
(* flags and sensitivity.                                                  *)
ReturnedAi(af, hf, s) ==
    LET ai == Normalize(AiBase(AiScores(af)), HumanBase(HumanScores(hf)))
    IN  ApplySensitivity(ai, RSub(RInt(1), ai), s)[1]

(* The banner the page shows for a returned AI score, lines 324-332.       *)
Banner(ai) ==
    IF RGt(ai, R(75, 100)) THEN "likely AI"
    ELSE IF RGt(ai, R(55, 100)) THEN "possibly AI-assisted"
    ELSE "likely human"

None == [n |-> 0, d |-> 1]
NoFlags(keys) == [k \in KeySet(keys) |-> FALSE]

(* Lines 147-213: both feature dictionaries and both score lists.          *)
Aggregate ==
    /\ pc = "extracted"
    /\ ai_features' = AiFeatures(Signals)
    /\ ai_scores' = AiScores(ai_features')
    /\ human_features' = HumanFeatures(Signals)
    /\ human_scores' = HumanScores(human_features')
    /\ pc' = "aggregated"
    /\ UNCHANGED <<text, sensitivity, sigvars, ai_score, human_score>>

(* Lines 215-221.                                                          *)
Combine ==
    /\ pc = "aggregated"
    /\ ai_score' = Normalize(AiBase(ai_scores), HumanBase(human_scores))
    /\ human_score' = RSub(RInt(1), ai_score')
    /\ pc' = "combined"
    /\ UNCHANGED <<text, sensitivity, sigvars, aggvars>>

(* Lines 223-236: the sensitivity adjustment and the return.               *)
Adjust ==
    /\ pc = "combined"
    /\ ai_score' = ApplySensitivity(ai_score, human_score, sensitivity)[1]
    /\ human_score' = ApplySensitivity(ai_score, human_score, sensitivity)[2]
    /\ pc' = "done"
    /\ UNCHANGED <<text, sensitivity, sigvars, aggvars>>

----------------------------------------------------------------------------
(* Inputs of the scoring pipeline: the slider's sensitivities (line 258:   *)
(* 0.5 to 1.0 in steps of 0.05) and, for each extractor, signal values at  *)
(* and around its threshold.                                               *)

Sensitivities == {50 + 5 * i : i \in 0..10}

RepeatedVals == {0, 3, 4}
FormalVals == {R(1, 3), R(2, 3)}
GrammarVals == {R(8, 10), R(1, 1)}
StructureVals == {R(7, 10), R(1, 1)}
ContractionVals == {0, 1, 2}
ErrorVals == {R(1, 100), R(1, 10)}
EmotionVals == {R(5, 100), R(1, 1)}
CasualVals == {R(5, 100), R(1, 1)}
OpinionVals == {R(5, 100), R(1, 1)}

InitResult ==
    /\ ai_features = NoFlags(AIKeys)
    /\ human_features = NoFlags(HumanKeys)
    /\ ai_scores = <<>>
    /\ human_scores = <<>>
    /\ ai_score = None
    /\ human_score = None

(* analyze_text entered with the extractor results taken from the sets     *)
(* above; the text itself is abstracted.                                   *)
Init ==
    /\ pc = "extracted"
    /\ text = <<>>
    /\ sensitivity \in Sensitivities
    /\ repeated \in RepeatedVals
    /\ formal \in FormalVals
    /\ grammar \in GrammarVals
    /\ formulaic \in BOOLEAN
    /\ structure \in StructureVals
    /\ contractions \in ContractionVals
    /\ errors \in ErrorVals
    /\ emotion \in EmotionVals
    /\ casual \in CasualVals
    /\ opinion \in OpinionVals
    /\ InitResult

Next == Aggregate \/ Combine \/ Adjust

Spec == Init /\ [][Next]_vars

----------------------------------------------------------------------------
(* analyze_text on texts: the ten extractor calls of lines 152-210, then   *)
(* the scoring pipeline above.                                             *)

Extract ==
    /\ pc = "start"
    /\ repeated' = count_repeated_phrases(text)
    /\ formal' = detect_formal_language(text)
    /\ grammar' = check_grammar_perfection(text)
    /\ formulaic' = check_formulaic_patterns(text)
    /\ structure' = analyze_structure(text)
    /\ contractions' = count_contractions(text)
    /\ errors' = detect_natural_errors(text)
    /\ emotion' = detect_emotional_language(text)
    /\ casual' = detect_casual_language(text)
    /\ opinion' = detect_personal_opinions(text)
    /\ pc' = "extracted"
    /\ UNCHANGED <<text, sensitivity, aggvars, ai_score, human_score>>

(* "I think it's wonderful, you know, I really love it! Basically amazing." *)
HumanScenario ==
    <<73, 32, 116, 104, 105, 110, 107, 32, 105, 116, 39, 115, 32, 119, 111,
      110, 100, 101, 114, 102, 117, 108, 44, 32, 121, 111, 117, 32, 107,
      110, 111, 119, 44, 32, 73, 32, 114, 101, 97, 108, 108, 121, 32, 108,
      111, 118, 101, 32, 105, 116, 33, 32, 66, 97, 115, 105, 99, 97, 108,
      108, 121, 32, 97, 109, 97, 122, 105, 110, 103, 46>>

(* "Furthermore, it is important to implement this." *)
AiSentence ==
    <<70, 117, 114, 116, 104, 101, 114, 109, 111, 114, 101, 44, 32, 105,
      116, 32, 105, 115, 32, 105, 109, 112, 111, 114, 116, 97, 110, 116, 32,
      116, 111, 32, 105, 109, 112, 108, 101, 109, 101, 110, 116, 32, 116,
      104, 105, 115, 46>>

(* The pieces bounded texts are built from: "a ", "a a ", "The the ",       *)
(* "it's ", the sentence terminator, " ", "I feel like " and               *)
(* "However, therefore, moreover, furthermore, in conclusion it is so      *)
(* fine ".                                                                 *)
Pieces ==
    <<
      <<97, 32>>,
      <<97, 32, 97, 32>>,
      <<84, 104, 101, 32, 116, 104, 101, 32>>,
      <<105, 116, 39, 115, 32>>,
      <<12290>>,
      <<32>>,
      <<73, 32, 102, 101, 101, 108, 32, 108, 105, 107, 101, 32>>,
      <<72, 111, 119, 101, 118, 101, 114, 44, 32, 116, 104, 101, 114, 101, 102,
        111, 114, 101, 44, 32, 109, 111, 114, 101, 111, 118, 101, 114, 44,
        32, 102, 117, 114, 116, 104, 101, 114, 109, 111, 114, 101, 44, 32,
        105, 110, 32, 99, 111, 110, 99, 108, 117, 115, 105, 111, 110, 32,
        105, 116, 32, 105, 115, 32, 115, 111, 32, 102, 105, 110, 101, 32>>
    >>

(* The largest number of pieces in a bounded text.                         *)
MaxPieces == 3

RECURSIVE Concats(_)
Concats(k) ==
    IF k = 0 THEN {<<>>}
    ELSE LET shorter == Concats(k - 1)
         IN  shorter \cup {t \o Pieces[i] : t \in shorter, i \in 1..Len(Pieces)}

(* The sentence three times, separated by single spaces.                   *)
AiScenario == AiSentence \o <<32>> \o AiSentence \o <<32>> \o AiSentence

Texts == Concats(MaxPieces) \cup {HumanScenario, AiScenario}

(* The sensitivities of the three branches of the adjustment.              *)
TextSensitivities == {60, 80, 90}

InitText ==
    /\ pc = "start"
    /\ text \in Texts
    /\ sensitivity \in TextSensitivities
    /\ repeated = 0
    /\ formal = None
    /\ grammar = None
    /\ formulaic = FALSE
    /\ structure = None
    /\ contractions = 0
    /\ errors = None
    /\ emotion = None
    /\ casual = None
    /\ opinion = None
    /\ InitResult

NextText == Extract \/ Aggregate \/ Combine \/ Adjust

SpecText == InitText /\ [][NextText]_vars

----------------------------------------------------------------------------
(* Properties of the scoring pipeline (Spec) and of analyze_text on texts  *)
(* (SpecText).                                                             *)

InUnit(x) == ~Raised(x) /\ RLe(RInt(0), x) /\ RLe(x, RInt(1))

(* C1: for every combination of the feature flags and every sensitivity,   *)
(* the AI and Human probabilities are each in [0,1] and sum to 1, both     *)
(* before the sensitivity adjustment and after it, the capped branch       *)
(* included.                                                               *)
C1_ScorePair ==
    pc \in {"combined", "done"} =>
        /\ InUnit(ai_score)
        /\ InUnit(human_score)
        /\ REq(RAdd(ai_score, human_score), RInt(1))

(* The cap at 0.99 has acted.                                              *)
C1_Witness ==
    /\ pc = "done"
    /\ sensitivity > 85
    /\ ai_score = R(99, 100)
    /\ human_score = R(1, 100)

Over(x, num, den) == x.n * den > num * x.d
Weight(b, w) == IF b THEN w ELSE 0
Smaller(a, b) == IF a < b THEN a ELSE b

(* C2: the flags and the pre-adjustment probability follow the fixed       *)
(* table: each flag is true iff its signal exceeds its threshold, each     *)
(* base is the minimum of 0.95 and the weights of the true flags plus the  *)
(* baseline (0.15 for AI, 0.10 for Human), the AI probability is the AI    *)
(* base over the total when the total is positive and 0.5 otherwise, and   *)
(* the Human probability is its complement.                                *)
C2_Table ==
    LET fr == repeated > 3
        ff == Over(formal, 6, 10)
        fg == Over(grammar, 8, 10)
        fp == formulaic
        fs == Over(structure, 7, 10)
        hc == contractions > 1
        he == Over(errors, 1, 100)
        hm == Over(emotion, 5, 100)
        hk == Over(casual, 5, 100)
        ho == Over(opinion, 5, 100)
        a == Smaller(95, Weight(fr, 15) + Weight(ff, 12) + Weight(fg, 12)
                         + Weight(fp, 10) + Weight(fs, 10) + 15)
        h == Smaller(95, Weight(hc, 15) + Weight(he, 12) + Weight(hm, 15)
                         + Weight(hk, 12) + Weight(ho, 10) + 10)
    IN  /\ pc \in {"aggregated", "combined", "done"} =>
            /\ ai_features = [repeated |-> fr, formal |-> ff, grammar |-> fg,
                              formulaic |-> fp, structure |-> fs]
            /\ human_features = [contraction |-> hc, error |-> he,
                                 emotional |-> hm, casual |-> hk, opinion |-> ho]
        /\ pc = "combined" =>
            /\ IF a + h > 0 THEN ai_score.n * (a + h) = a * ai_score.d
                            ELSE ai_score.n * 2 = ai_score.d
            /\ human_score.n * ai_score.d
                   = (ai_score.d - ai_score.n) * human_score.d

(* A signal exactly at its threshold leaves its flag false while others    *)
(* are true.                                                               *)
C2_Witness ==
    /\ pc = "combined"
    /\ repeated = 3
    /\ contractions = 2
    /\ formulaic
    /\ ai_score = R(1, 2)

(* C3: for fixed flags the AI probability returned at sensitivity 0.6 is   *)
(* at most the one returned at 0.8, which is at most the one at 0.9.       *)
C3_SensitivityMonotone ==
    pc = "done" =>
        /\ RLe(ReturnedAi(ai_features, human_features, 60),
               ReturnedAi(ai_features, human_features, 80))
        /\ RLe(ReturnedAi(ai_features, human_features, 80),
               ReturnedAi(ai_features, human_features, 90))

(* The three sensitivities return three different probabilities, and the   *)
(* run itself is one of the three.                                         *)
C3_Witness ==
    /\ pc = "done"
    /\ sensitivity = 90
    /\ REq(ai_score, ReturnedAi(ai_features, human_features, 90))
    /\ RLt(ReturnedAi(ai_features, human_features, 60),
           ReturnedAi(ai_features, human_features, 80))
    /\ RLt(ReturnedAi(ai_features, human_features, 80), ai_score)

(* C4: the adjustment has three branches with strict comparisons: below    *)
(* 0.75 the AI probability is multiplied by 0.85, above 0.85 it becomes    *)
(* min(0.99, 1.15 times it), and from 0.75 to 0.85, both ends included,    *)
(* both probabilities are returned unchanged; in every branch the Human    *)
(* probability returned is 1 minus the AI probability returned.            *)
C4_Branches ==
    [][(pc = "combined" /\ pc' = "done") =>
          /\ sensitivity < 75 =>
                 ai_score'.n * ai_score.d * 100 = 85 * ai_score.n * ai_score'.d
          /\ sensitivity > 85 =>
                 IF 115 * ai_score.n > 99 * ai_score.d
                 THEN ai_score'.n * 100 = 99 * ai_score'.d
                 ELSE ai_score'.n * ai_score.d * 100
                          = 115 * ai_score.n * ai_score'.d
          /\ (75 <= sensitivity /\ sensitivity <= 85) =>
                 ai_score' = ai_score /\ human_score' = human_score
          /\ REq(human_score', RSub(RInt(1), ai_score'))]_vars

(* A run returned at one of the two boundary sensitivities.                *)
C4_Witness ==
    /\ pc = "done"
    /\ sensitivity \in {75, 85}
    /\ ai_score = Normalize(AiBase(ai_scores), HumanBase(human_scores))

ScenarioHumanDone ==
    text = HumanScenario /\ sensitivity = 80 /\ pc = "done"

(* C5 as stated: for the text "I think it's wonderful, you know, I really  *)
(* love it! Basically amazing." at sensitivity 0.8 the Human probability   *)
(* exceeds the AI probability and the Contraction, Emotional, Casual and   *)
(* Opinion flags are all true.                                             *)
C5_Original ==
    ScenarioHumanDone =>
        /\ RGt(human_score, ai_score)
        /\ human_features["contraction"]
        /\ human_features["emotional"]
        /\ human_features["casual"]
        /\ human_features["opinion"]

(* C5 amended: for that text at sensitivity 0.8 the Human probability      *)
(* exceeds the AI probability and the Emotional, Casual and Opinion flags  *)
(* are true, but the Contraction flag is false: the text holds one         *)
(* contraction and the flag needs more than one.                           *)
C5_Amended ==
    ScenarioHumanDone =>
        /\ RGt(human_score, ai_score)
        /\ contractions = 1
        /\ ~human_features["contraction"]
        /\ human_features["emotional"]
        /\ human_features["casual"]
        /\ human_features["opinion"]

C5_Witness == ScenarioHumanDone /\ REq(human_score, R(47, 74))

(* C6: for the sentence "Furthermore, it is important to implement this."  *)
(* written three times at sensitivity 0.9, the formulaic flag is true, the *)
(* repeated-phrase count exceeds 3 and its flag is true, the returned AI   *)
(* probability exceeds the Human probability, and it is min(0.99, 1.15     *)
(* times the pre-adjustment value), which is more than that value.         *)
C6_AiScenario ==
    [][(text = AiScenario /\ sensitivity = 90 /\ pc = "combined" /\ pc' = "done") =>
          /\ formulaic
          /\ ai_features["formulaic"]
          /\ repeated > 3
          /\ ai_features["repeated"]
          /\ RGt(ai_score', human_score')
          /\ REq(ai_score', RMin(R(99, 100), RMul(ai_score, R(115, 100))))
          /\ RGt(ai_score', ai_score)]_vars

C6_Witness ==
    /\ text = AiScenario
    /\ sensitivity = 90
    /\ pc = "done"
    /\ repeated = 5
    /\ ai_score = R(99, 100)

NonNegative(x) == ~Raised(x) /\ RLe(RInt(0), x)

(* C7: no extractor fails and every extractor stays within its bound, for  *)
(* every text, the empty text, whitespace-only text and text of fewer      *)
(* than 3 tokens included: the formal, grammar and structure scores are in *)
(* [0,1], the two counts are integers >= 0, the four ratios are >= 0.      *)
C7_ExtractorBounds ==
    pc # "start" =>
        /\ InUnit(formal)
        /\ InUnit(grammar)
        /\ InUnit(structure)
        /\ repeated \in Nat
        /\ contractions \in Nat
        /\ NonNegative(errors)
        /\ NonNegative(emotion)
        /\ NonNegative(casual)
        /\ NonNegative(opinion)

(* The extractors have run on a non-empty text of whitespace only.         *)
C7_Witness ==
    /\ pc = "extracted"
    /\ text # <<>>
    /\ Split(text) = <<>>

(* C8: count_repeated_phrases returns the number of distinct contiguous    *)
(* 3-token windows, over the lowercased whitespace-split tokens, that      *)
(* occur at least 3 times; 0 when there are fewer than 3 tokens, and 0 for *)
(* a text of exactly 3 identical tokens.                                   *)
C8_RepeatedPhrases ==
    pc # "start" =>
        LET ws == Split(Lower(text))
            idx == 1..(Len(ws) - 2)
            win(i) == <<ws[i], ws[i + 1], ws[i + 2]>>
            occ(w) == Cardinality({i \in idx : win(i) = w})
        IN  /\ repeated = Cardinality({w \in {win(i) : i \in idx} : occ(w) >= 3})
            /\ Len(ws) < 3 => repeated = 0
            /\ (Len(ws) = 3 /\ ws[1] = ws[2] /\ ws[2] = ws[3]) => repeated = 0

(* A bounded text with a window that occurs at least 3 times.              *)
C8_Witness ==
    /\ pc = "extracted"
    /\ text \in Concats(MaxPieces)
    /\ repeated >= 1

(* C9: with a sensitivity below 0.75 the returned AI probability is never  *)
(* above 0.75, so the banner is never "likely AI".                         *)
C9_NoStrongBanner ==
    (pc = "done" /\ sensitivity < 75) =>
        /\ ~RGt(ai_score, R(75, 100))
        /\ Banner(ai_score) \in {"possibly AI-assisted", "likely human"}

(* All five AI flags and no Human flag, returned below 0.75.               *)
C9_Witness ==
    /\ pc = "done"
    /\ sensitivity < 75
    /\ \A k \in KeySet(AIKeys) : ai_features[k]
    /\ \A k \in KeySet(HumanKeys) : ~human_features[k]
    /\ Banner(ai_score) = "possibly AI-assisted"

(* C10: for a fixed sensitivity, switching one AI flag from false to true  *)
(* never lowers the returned AI probability, and switching one Human flag  *)
(* from false to true never raises it.                                     *)
C10_FlagMonotone ==
    pc = "done" =>
        /\ \A k \in KeySet(AIKeys) :
               ~ai_features[k] =>
                   RLe(ai_score,
                       ReturnedAi([ai_features EXCEPT ![k] = TRUE],
                                  human_features, sensitivity))
        /\ \A k \in KeySet(HumanKeys) :
               ~human_features[k] =>
                   RLe(ReturnedAi(ai_features,
                                  [human_features EXCEPT ![k] = TRUE],
                                  sensitivity),
                       ai_score)

(* A returned probability that one more AI flag raises and one more Human  *)
(* flag lowers.                                                            *)
C10_Witness ==
    /\ pc = "done"
    /\ ~ai_features["repeated"]
    /\ ~human_features["opinion"]
    /\ RLt(ai_score,
           ReturnedAi([ai_features EXCEPT !["repeated"] = TRUE],
                      human_features, sensitivity))
    /\ RLt(ReturnedAi(ai_features, [human_features EXCEPT !["opinion"] = TRUE],
                      sensitivity),
           ai_score)

====
